---- MODULE Spec2Model ----
(***************************************************************************)
(* KumaClient (src/src/lib.rs): a blocking client for an uptime-monitoring *)
(* service over a socket.io connection.  The foreground caller runs one    *)
(* public operation at a time (add_monitor, search_monitor, find_monitor,  *)
(* disconnect); the transport's polling thread runs the monitorList push   *)
(* handler and the acknowledgement callbacks.  Both sides share the        *)
(* monitor cache behind a mutex.                                           *)
(***************************************************************************)
EXTENDS Integers, Sequences, FiniteSets, TLC

VARIABLES
    _connected,     \* KumaClient::_connected
    _client,        \* KumaClient::_client : Option<Client>, the handle is the transport's number
    monitor_list,   \* KumaClient::monitor_list : uid -> Monitor
    lock,           \* holder of the monitor_list mutex: "free", "handler", "caller"
    handler,        \* the transport's callback thread: idle, merging (holds the lock), dead (panicked);
                    \* awaited: the event being merged was delivered while line 200 waited for it
    transport,      \* "closed" or "open": a transport with a registered monitorList handler exists
    opened,         \* number of transports opened so far
    logins,         \* login requests sent since the last disconnect
    loginAck,       \* fate of the last login request: none, pending, ok, rejected, timeout
    pc,             \* position of the foreground caller
    call,           \* the public operation in progress and its arguments
    caller,         \* which function called connect: "add_monitor" or "reload_monitor_list"
    sent,           \* requests emitted by the operation in progress, in order
    response,       \* add_monitor's response slot : Option<u8>
    ackPending,     \* an acknowledgement callback for "add" is registered and has not fired
    ack,            \* the payload the callback of the operation in progress was called with
    ackLate,        \* the callback fired after the polling loop had given up
    counter,        \* add_monitor's polling counter
    result          \* what the last public operation returned

vars == <<_connected, _client, monitor_list, lock, handler, transport, opened, logins,
          loginAck, pc, call, caller, sent, response, ackPending, ack, ackLate, counter,
          result>>

----------------------------------------------------------------------------
(* Option<T>: None is the empty sequence, Some(v) the one-element sequence. *)
None == <<>>
Some(v) == <<v>>
unwrap_or(o, d) == IF o = None THEN d ELSE o[1]

(* Bounds of the model. *)
MaxTransports == 2
MaxLogins == 2

(* Program constants. *)
U8Max == 255
PollCap == 20
DefaultInterval == 90

EmptyMap == [u \in {} |-> None]

----------------------------------------------------------------------------
(* A constructor with other defaults: method GET, checked every 60 seconds. *)
new_get_60(name, typology) ==
    [ id |-> None,
      name |-> name,
      typology |-> unwrap_or(typology, "http"),
      url |-> None,
      parent |-> None,
      path_name |-> None,
      accepted_status_codes |-> <<"200-299">>,
      expiry_notification |-> TRUE,
      method |-> Some("GET"),
      interval |-> 60 ]

(* Monitor::new *)
new(name, typology) ==
    [ id |-> None,
      name |-> name,
      typology |-> unwrap_or(typology, "http"),
      url |-> None,
      parent |-> None,
      path_name |-> None,
      accepted_status_codes |-> <<"200-299">>,
      expiry_notification |-> TRUE,
      method |-> Some("HEAD"),
      interval |-> DefaultInterval ]

(* A uid that writes nothing for an absent parent. *)
uid_absent_parent(m) ==
    (IF m.parent = None THEN "" ELSE ToString(m.parent[1])) \o "-" \o m.name

(* Monitor::uid : format!("{}-{}", parent.unwrap_or(0), name) *)
uid(m) == ToString(unwrap_or(m.parent, 0)) \o "-" \o m.name

(* u8 fields of the wire structs: serde rejects a number outside 0..=255. *)
FitsU8(n) == n \in 0..U8Max

(* serde_json::from_str::<HashMap<String, Monitor>>: a JSON object whose values    *)
(* deserialize as Monitor (id : Option<u8>, interval : u8).                         *)
MonitorListParses(json) ==
    /\ json.shape = "object"
    /\ \A k \in DOMAIN json.value :
          /\ json.value[k].id = None \/ FitsU8(json.value[k].id[1])
          /\ FitsU8(json.value[k].interval)

(* serde_json::from_str::<Vec<ApiResponse>>: a JSON array of records with a        *)
(* required bool ok and an optional u8 monitorID.                                   *)
ApiResponseParses(json) ==
    /\ json.shape = "array"
    /\ \A i \in DOMAIN json.value :
          /\ json.value[i].ok /= None
          /\ json.value[i].monitorID = None \/ FitsU8(json.value[i].monitorID[1])

----------------------------------------------------------------------------
(* What the server can send.  A JSON value is [shape, value]; a payload is    *)
(* Payload::Binary or Payload::String(json).                                   *)
Binary == [tag |-> "Binary", json |-> [shape |-> "none", value |-> None]]
String(shape, value) == [tag |-> "String", json |-> [shape |-> shape, value |-> value]]

WireMonitor(id, name, parent) == [new(name, None) EXCEPT !.id = Some(id), !.parent = parent]

MonA == WireMonitor(1, "a", None)
MonB == WireMonitor(2, "b", Some(1))
MonA0 == WireMonitor(3, "a", Some(0))
MonBig == WireMonitor(U8Max + 1, "c", None)

(* monitorList push events: the server's mapping from its own keys to monitors. *)
MonitorListPayloads ==
    { Binary,
      String("garbage", None),
      String("object", EmptyMap),
      String("object", [k \in {"1"} |-> MonA]),
      String("object", [k \in {"1", "2"} |-> IF k = "1" THEN MonA ELSE MonB]),
      String("object", [k \in {"1", "3"} |-> IF k = "1" THEN MonA ELSE MonA0]),
      String("object", [k \in {"4"} |-> MonBig]) }

ApiRecord(ok, monitorID) == [ok |-> ok, msg |-> None, monitorID |-> monitorID]

(* acknowledgement payloads of the "add" request *)
AddAckPayloads ==
    { Binary,
      String("garbage", None),
      String("object", EmptyMap),
      String("array", <<>>),
      String("array", <<ApiRecord(Some(FALSE), None)>>),
      String("array", <<ApiRecord(Some(TRUE), None)>>),
      String("array", <<ApiRecord(Some(TRUE), Some(0))>>),
      String("array", <<ApiRecord(Some(TRUE), Some(42))>>),
      String("array", <<ApiRecord(Some(TRUE), Some(U8Max))>>),
      String("array", <<ApiRecord(Some(TRUE), Some(U8Max + 1))>>),
      String("array", <<ApiRecord(None, Some(1))>>) }

(* arguments of the public operations *)
InputMonitors == { new("a", None), [new("b", Some("ping")) EXCEPT !.parent = Some(1)] }
Names == { None, Some("a"), Some("b") }
ParentIds == { None, Some(0), Some(1) }

----------------------------------------------------------------------------
(* Results of the public operations. *)
Running == [kind |-> "Running", value |-> None]
Ok(v) == [kind |-> "Ok", value |-> v]
Err(e) == [kind |-> "Err", value |-> e]
Panic(why) == [kind |-> "Panic", value |-> why]

IdleHandler == [state |-> "idle", snap |-> EmptyMap, panic |-> "none", awaited |-> FALSE]
DeadHandler(callback) ==
    [state |-> "dead", snap |-> EmptyMap, panic |-> callback, awaited |-> FALSE]
NoCall == [op |-> "none", monitor |-> None, by_name |-> None, by_parent_id |-> None]

(* KumaClient::new *)
Init ==
    /\ _connected = FALSE
    /\ _client = None
    /\ monitor_list = EmptyMap
    /\ lock = "free"
    /\ handler = IdleHandler
    /\ transport = "closed"
    /\ opened = 0
    /\ logins = 0
    /\ loginAck = "none"
    /\ pc = "idle"
    /\ call = NoCall
    /\ caller = "none"
    /\ sent = <<>>
    /\ response = None
    /\ ackPending = FALSE
    /\ ack = None
    /\ ackLate = FALSE
    /\ counter = 0
    /\ result = Running

(* The operation in progress returns r to the caller of the library. *)
Return(r) ==
    /\ pc' = "idle"
    /\ result' = r
    /\ response' = None
    /\ counter' = 0

(* An unwrap() on None or Err in the foreground thread: the thread panics. *)
Panics(why) ==
    /\ pc' = "panicked"
    /\ result' = Panic(why)
    /\ UNCHANGED <<response, counter>>

(* An error leaves reload_monitor_list (or connect inside it) through `?`:          *)
(* add_monitor passes it on (lines 214-215), search_monitor turns it into an empty  *)
(* map (lines 282-284) and find_monitor then finds nothing (lines 305-309).         *)
Propagate(e) ==
    CASE call.op = "add_monitor" -> Return(Err(e))
      [] call.op = "search_monitor" -> Return(Ok(EmptyMap))
      [] OTHER -> Return(Ok(None))

----------------------------------------------------------------------------
(* pub fn add_monitor(&mut self, monitor), line 214: self.connect()? *)
add_monitor(monitor) ==
    /\ pc = "idle"
    /\ pc' = "connect"
    /\ caller' = "add_monitor"
    /\ call' = [NoCall EXCEPT !.op = "add_monitor", !.monitor = Some(monitor)]
    /\ sent' = <<>>
    /\ result' = Running
    /\ ackLate' = FALSE
    /\ ack' = None
    /\ UNCHANGED <<_connected, _client, monitor_list, lock, handler, transport, opened,
                   logins, loginAck, response, ackPending, counter>>

(* pub fn search_monitor(&mut self, by_name, by_parent_id), line 282 *)
search_monitor(by_name, by_parent_id) ==
    /\ pc = "idle"
    /\ pc' = "reload"
    /\ call' = [NoCall EXCEPT !.op = "search_monitor", !.by_name = by_name,
                              !.by_parent_id = by_parent_id]
    /\ sent' = <<>>
    /\ result' = Running
    /\ ackLate' = FALSE
    /\ ack' = None
    /\ UNCHANGED <<_connected, _client, monitor_list, lock, handler, transport, opened,
                   logins, loginAck, caller, response, ackPending, counter>>

(* pub fn find_monitor(&mut self, by_name, by_parent_id), line 303 *)
find_monitor(by_name, by_parent_id) ==
    /\ pc = "idle"
    /\ pc' = "reload"
    /\ call' = [NoCall EXCEPT !.op = "find_monitor", !.by_name = by_name,
                              !.by_parent_id = by_parent_id]
    /\ sent' = <<>>
    /\ result' = Running
    /\ ackLate' = FALSE
    /\ ack' = None
    /\ UNCHANGED <<_connected, _client, monitor_list, lock, handler, transport, opened,
                   logins, loginAck, caller, response, ackPending, counter>>

(* An add_monitor that goes from its connect straight to the duplicate check. *)
AfterConnectSkipsReload == IF caller = "add_monitor" THEN "add_check" ELSE "reload_clear"

(* Where connect returns to: line 215 of add_monitor or line 194 of                *)
(* reload_monitor_list.                                                            *)
AfterConnect == IF caller = "add_monitor" THEN "reload" ELSE "reload_clear"

(* A connect that forgets the early return. *)
never_connected(flag) == FALSE

(* connect, line 137: if self._connected *)
already_connected(flag) == flag

(* fn connect(&mut self), lines 135-161: the early return when connected, else the *)
(* transport is opened with the monitorList handler registered.                    *)
connect ==
    /\ pc = "connect"
    /\ IF already_connected(_connected)
         THEN /\ pc' = AfterConnect
              /\ UNCHANGED <<_connected, _client, monitor_list, lock, handler, transport,
                             opened, logins, loginAck, call, caller, sent, response,
                             ackPending, ack, ackLate, counter, result>>
         ELSE \E ok \in BOOLEAN :
                IF ok
                  THEN /\ opened < MaxTransports
                       /\ transport' = "open"
                       /\ opened' = opened + 1
                       /\ handler' = IF handler.state = "merging" THEN handler ELSE IdleHandler
                       /\ pc' = "connect_login"
                       /\ UNCHANGED <<_connected, _client, monitor_list, lock, logins,
                                      loginAck, call, caller, sent, response, ackPending,
                                      ack, ackLate, counter, result>>
                  ELSE /\ Propagate("ConnectionFailed")
                       /\ UNCHANGED <<_connected, _client, monitor_list, lock, handler,
                                      transport, opened, logins, loginAck, call, caller,
                                      sent, ackPending, ack, ackLate>>

(* connect, lines 162-179: after the settle delay the login request is emitted;    *)
(* emit_with_ack returns once the packet is written, and the client is marked      *)
(* connected.  When the emit fails the `?` of line 174 returns the error and drops  *)
(* the local client; no statement closes the transport, and whether the drop does  *)
(* is not decided by this source: it may stay open, its handler still registered,  *)
(* or be closed.                                                                   *)
connect_login ==
    /\ pc = "connect_login"
    /\ \E ok \in BOOLEAN :
         IF ok
           THEN /\ logins < MaxLogins
                /\ logins' = logins + 1
                /\ loginAck' = "pending"
                /\ sent' = Append(sent, "login")
                /\ _client' = Some(opened)
                /\ _connected' = TRUE
                /\ pc' = AfterConnect
                /\ UNCHANGED <<monitor_list, lock, handler, transport, opened, call, caller,
                               response, ackPending, ack, ackLate, counter, result>>
           ELSE /\ Propagate("AuthenticationFailed")
                /\ transport' \in {"open", "closed"}
                /\ UNCHANGED <<_connected, _client, monitor_list, lock, handler, opened,
                               logins, loginAck, call, caller, sent, ackPending, ack, ackLate>>

(* pub fn disconnect(&mut self), lines 182-189 *)
disconnect ==
    /\ pc = "idle"
    /\ call' = [NoCall EXCEPT !.op = "disconnect"]
    /\ sent' = <<>>
    /\ ackLate' = FALSE
    /\ ack' = None
    /\ IF _client = None
         THEN /\ Panics("unwrap on None")
              /\ UNCHANGED <<_connected, _client, monitor_list, lock, handler, transport,
                             opened, logins, loginAck, caller, ackPending>>
         ELSE \E ok \in BOOLEAN :
                IF ok
                  THEN /\ _client' = None
                       /\ _connected' = FALSE
                       /\ transport' = "closed"
                       /\ logins' = 0
                       /\ loginAck' = "none"
                       /\ ackPending' = FALSE
                       /\ Return(Ok(None))
                       /\ UNCHANGED <<monitor_list, lock, handler, opened, caller>>
                  ELSE /\ Panics("unwrap on Err")
                       /\ UNCHANGED <<_connected, _client, monitor_list, lock, handler,
                                      transport, opened, logins, loginAck, caller,
                                      ackPending>>

----------------------------------------------------------------------------
(* fn reload_monitor_list(&mut self), line 192: self.connect()? *)
reload_monitor_list ==
    /\ pc = "reload"
    /\ pc' = "connect"
    /\ caller' = "reload_monitor_list"
    /\ UNCHANGED <<_connected, _client, monitor_list, lock, handler, transport, opened,
                   logins, loginAck, call, sent, response, ackPending, ack, ackLate, counter,
                   result>>

(* A guard that is never dropped: the mutex stays with whoever locked it. *)
keep_guard(holder) == holder

(* lines 194, 200, 285 and 154-158: the MutexGuard returned by lock() is a         *)
(* temporary of its statement (of the while condition at line 200, of the          *)
(* callback's block at 154-158) and is dropped at its end, before the loop body.   *)
drop_guard(holder) == "free"

(* line 194: self.monitor_list.clone().lock().unwrap().clear() *)
reload_clear ==
    /\ pc = "reload_clear"
    /\ lock = "free"
    /\ monitor_list' = EmptyMap
    /\ lock' = drop_guard("caller")
    /\ pc' = "reload_emit"
    /\ UNCHANGED <<_connected, _client, handler, transport, opened, logins, loginAck,
                   call, caller, sent, response, ackPending, ack, ackLate, counter, result>>

(* lines 195-198: emit("getMonitorList", json!([]))? *)
reload_emit ==
    /\ pc = "reload_emit"
    /\ \E ok \in BOOLEAN :
         IF ok
           THEN /\ sent' = Append(sent, "getMonitorList")
                /\ pc' = "reload_poll"
                /\ UNCHANGED <<response, counter, result>>
           ELSE /\ Propagate("EmitFailed")
                /\ UNCHANGED sent
    /\ UNCHANGED <<_connected, _client, monitor_list, lock, handler, transport, opened,
                   logins, loginAck, call, caller, ackPending, ack, ackLate>>

(* line 200: while self.monitor_list.clone().lock().unwrap().len() == 0 *)
reload_poll ==
    /\ pc = "reload_poll"
    /\ lock = "free"
    /\ pc' = IF Cardinality(DOMAIN monitor_list) = 0 THEN "reload_sleep" ELSE "reload_log"
    /\ lock' = drop_guard("caller")
    /\ UNCHANGED <<_connected, _client, monitor_list, handler, transport, opened,
                   logins, loginAck, call, caller, sent, response, ackPending, ack, ackLate,
                   counter, result>>

(* line 201: sleep(Duration::from_millis(100)) *)
reload_sleep ==
    /\ pc = "reload_sleep"
    /\ pc' = "reload_poll"
    /\ UNCHANGED <<_connected, _client, monitor_list, lock, handler, transport, opened,
                   logins, loginAck, call, caller, sent, response, ackPending, ack, ackLate,
                   counter, result>>

(* Where reload_monitor_list returns Ok(()) to: line 217 of add_monitor or line    *)
(* 285 of search_monitor.                                                          *)
AfterReload == IF call.op = "add_monitor" THEN "add_check" ELSE "search_filter"

(* lines 205-210: debug!(.., self.monitor_list.try_lock().unwrap().len()); the     *)
(* argument is evaluated only when the debug level is enabled.                     *)
reload_log ==
    /\ pc = "reload_log"
    /\ \E enabled \in BOOLEAN :
         IF enabled /\ lock /= "free"
           THEN Panics("try_lock WouldBlock")
           ELSE /\ pc' = AfterReload
                /\ UNCHANGED <<response, counter, result>>
    /\ UNCHANGED <<_connected, _client, monitor_list, lock, handler, transport, opened,
                   logins, loginAck, call, caller, sent, ackPending, ack, ackLate>>

----------------------------------------------------------------------------
(* add_monitor, lines 217-224: the duplicate check *)
add_check ==
    /\ pc = "add_check"
    /\ IF lock /= "free"
         THEN Panics("try_lock WouldBlock")
         ELSE IF uid(call.monitor[1]) \in DOMAIN monitor_list
                THEN Return(Err("DuplicateMonitor"))
                ELSE /\ pc' = "add_emit"
                     /\ UNCHANGED <<response, counter, result>>
    /\ UNCHANGED <<_connected, _client, monitor_list, lock, handler, transport, opened,
                   logins, loginAck, call, caller, sent, ackPending, ack, ackLate>>

(* add_monitor, lines 227-258: the response slot, emit_with_ack("add", ..)?, and   *)
(* the counter.                                                                    *)
add_emit ==
    /\ pc = "add_emit"
    /\ \E ok \in BOOLEAN :
         IF ok
           THEN /\ sent' = Append(sent, "add")
                /\ ackPending' = TRUE
                /\ response' = None
                /\ counter' = 0
                /\ pc' = "add_poll"
                /\ UNCHANGED result
           ELSE /\ Return(Err("EmitFailed"))
                /\ UNCHANGED <<sent, ackPending>>
    /\ UNCHANGED <<_connected, _client, monitor_list, lock, handler, transport, opened,
                   logins, loginAck, call, caller, ack, ackLate>>

(* A polling loop that waits for the callback alone. *)
keep_waiting_uncapped(slot, n) == slot = None

(* add_monitor, line 259: response.lock().unwrap().is_none() && counter < 20 *)
keep_waiting(slot, n) == slot = None /\ n < PollCap

(* add_monitor, lines 259-265: one evaluation of the loop condition, and the body *)
add_poll ==
    /\ pc = "add_poll"
    /\ IF keep_waiting(response, counter)
         THEN /\ counter' = counter + 1
              /\ UNCHANGED pc
         ELSE /\ pc' = "add_read"
              /\ UNCHANGED counter
    /\ UNCHANGED <<_connected, _client, monitor_list, lock, handler, transport, opened,
                   logins, loginAck, call, caller, sent, response, ackPending, ack, ackLate,
                   result>>

(* add_monitor, lines 267-274: the final read of the response slot *)
add_read ==
    /\ pc = "add_read"
    /\ IF response /= None /\ response[1] > 0
         THEN Return(Ok([call.monitor[1] EXCEPT !.id = Some(response[1])]))
         ELSE Return(Err("CreationFailed"))
    /\ UNCHANGED <<_connected, _client, monitor_list, lock, handler, transport, opened,
                   logins, loginAck, call, caller, sent, ackPending, ack, ackLate>>

----------------------------------------------------------------------------
(* HashMap::retain: the entries whose key is in keep *)
retain(map, keep) == [u \in keep |-> map[u]]

(* search_monitor, lines 287-289: the name filter *)
retain_name(map, by_name) ==
    IF by_name = None THEN map
    ELSE retain(map, {k \in DOMAIN map : map[k].name = by_name[1]})

(* search_monitor, lines 291-293: monitor.parent.unwrap() == parent_id; the unwrap *)
(* panics on a retained candidate that has no parent.                              *)
parent_unwrap_panics(map, by_parent_id) ==
    /\ by_parent_id /= None
    /\ \E k \in DOMAIN map : map[k].parent = None

retain_parent(map, by_parent_id) ==
    IF by_parent_id = None THEN map
    ELSE retain(map, {k \in DOMAIN map : map[k].parent[1] = by_parent_id[1]})

(* search_monitor, lines 285-295 *)
search_filter ==
    /\ pc = "search_filter"
    /\ lock = "free"
    /\ LET intermediary == retain_name(monitor_list, call.by_name) IN
         IF parent_unwrap_panics(intermediary, call.by_parent_id)
           THEN Panics("unwrap on None")
           ELSE IF call.op = "find_monitor"
                  THEN /\ pc' = "find_pick"
                       /\ result' = Ok(retain_parent(intermediary, call.by_parent_id))
                       /\ UNCHANGED <<response, counter>>
                  ELSE Return(Ok(retain_parent(intermediary, call.by_parent_id)))
    /\ lock' = drop_guard("caller")
    /\ UNCHANGED <<_connected, _client, monitor_list, handler, transport, opened,
                   logins, loginAck, call, caller, sent, ackPending, ack, ackLate>>

(* A test that accepts a single match too. *)
at_least_one(len) == len >= 1

(* find_monitor, line 305: if searched_monitors.len() > 1 *)
more_than_one(len) == len > 1

(* find_monitor, lines 305-309: searched_monitors.values().next() is whichever     *)
(* entry the HashMap iterates first.                                               *)
find_pick ==
    /\ pc = "find_pick"
    /\ LET searched_monitors == result.value IN
         IF more_than_one(Cardinality(DOMAIN searched_monitors))
           THEN \E k \in DOMAIN searched_monitors : Return(Ok(Some(searched_monitors[k])))
           ELSE Return(Ok(None))
    /\ UNCHANGED <<_connected, _client, monitor_list, lock, handler, transport, opened,
                   logins, loginAck, call, caller, sent, ackPending, ack, ackLate>>

----------------------------------------------------------------------------
(* The callback thread of the transport.                                        *)

(* connect, lines 148-154: the monitorList handler up to the lock.  Binary is   *)
(* ignored; a String is parsed with from_str(..).unwrap(), which panics in the  *)
(* callback thread when the text is no map of monitors; then the lock is taken. *)
on_monitorList(payload) ==
    /\ pc /= "panicked"
    /\ transport = "open"
    /\ handler.state = "idle"
    /\ lock = "free"
    /\ payload.tag = "String"
    /\ IF MonitorListParses(payload.json)
         THEN /\ handler' = [state |-> "merging", snap |-> payload.json.value,
                           panic |-> "none",
                           awaited |-> pc \in {"reload_poll", "reload_sleep"}]
              /\ lock' = "handler"
         ELSE /\ handler' = DeadHandler("monitorList")
              /\ UNCHANGED lock
    /\ UNCHANGED <<_connected, _client, monitor_list, transport, opened, logins, loginAck,
                   pc, call, caller, sent, response, ackPending, ack, ackLate, counter, result>>

(* A merge that keeps the server's keys. *)
insert_all_by_server_key(list, snap) ==
    {[k \in DOMAIN list \cup DOMAIN snap |-> IF k \in DOMAIN snap THEN snap[k] ELSE list[k]]}

(* The caches a merge of snapshot snap into list can leave: every monitor of the *)
(* snapshot is inserted under its uid, in the HashMap's iteration order, so of   *)
(* several monitors with one uid whichever comes last stays.                     *)
insert_all(list, snap) ==
    LET monitors == {snap[k] : k \in DOMAIN snap}
        uids == {uid(m) : m \in monitors}
        lasts == {f \in [uids -> monitors] : \A u \in uids : uid(f[u]) = u}
    IN  {[u \in DOMAIN list \cup uids |-> IF u \in uids THEN f[u] ELSE list[u]] : f \in lasts}

(* connect, lines 155-158: the inserts under the lock, and its release *)
merge_monitorList ==
    /\ pc /= "panicked"
    /\ handler.state = "merging"
    /\ monitor_list' \in insert_all(monitor_list, handler.snap)
    /\ handler' = IdleHandler
    /\ lock' = drop_guard("handler")
    /\ UNCHANGED <<_connected, _client, transport, opened, logins, loginAck, pc, call,
                   caller, sent, response, ackPending, ack, ackLate, counter, result>>

(* add_monitor, lines 233-249: what the acknowledgement callback stores *)
ack_value(payload) ==
    IF payload.tag = "Binary" THEN 0
    ELSE LET tmp_result == payload.json.value IN
         IF Len(tmp_result) = 0 THEN 0
         ELSE IF tmp_result[1].ok[1] THEN unwrap_or(tmp_result[1].monitorID, 0)
         ELSE 0

(* add_monitor, lines 230-250: the acknowledgement callback of "add".  The slot  *)
(* belongs to the call that registered the callback; once that call has returned *)
(* the store is invisible.  One callback is outstanding at a time: a later "add" *)
(* takes the place of one still waiting.                                         *)
ack_callback(payload) ==
    /\ pc /= "panicked"
    /\ transport = "open"
    /\ handler.state = "idle"
    /\ ackPending
    /\ ackPending' = FALSE
    /\ LET live == pc \in {"add_poll", "add_read"} IN
         /\ IF live
              THEN ack' = Some(payload) /\ ackLate' = (pc = "add_read")
              ELSE UNCHANGED <<ack, ackLate>>
         /\ IF payload.tag = "String" /\ ~ApiResponseParses(payload.json)
              THEN /\ handler' = DeadHandler("ack_callback")
                   /\ UNCHANGED response
              ELSE /\ response' = IF live THEN Some(ack_value(payload)) ELSE response
                   /\ UNCHANGED handler
    /\ UNCHANGED <<_connected, _client, monitor_list, lock, transport, opened, logins,
                   loginAck, pc, call, caller, sent, counter, result>>

(* add_monitor, line 254: Duration::from_secs(4), after which the transport drops *)
(* the callback unfired.                                                          *)
ack_timeout ==
    /\ pc /= "panicked"
    /\ ackPending
    /\ ackPending' = FALSE
    /\ UNCHANGED <<_connected, _client, monitor_list, lock, handler, transport, opened,
                   logins, loginAck, pc, call, caller, sent, response, ack, ackLate, counter,
                   result>>

(* connect, lines 165-174: the login acknowledgement only logs; the request is   *)
(* acknowledged with success, acknowledged with a rejection, or times out after   *)
(* Duration::from_secs(2).                                                        *)
login_ack(outcome) ==
    /\ pc /= "panicked"
    /\ loginAck = "pending"
    /\ outcome = "timeout" \/ (transport = "open" /\ handler.state = "idle")
    /\ loginAck' = outcome
    /\ UNCHANGED <<_connected, _client, monitor_list, lock, handler, transport, opened,
                   logins, pc, call, caller, sent, response, ackPending, ack, ackLate, counter,
                   result>>

----------------------------------------------------------------------------
Foreground ==
    \/ \E m \in InputMonitors : add_monitor(m)
    \/ \E n \in Names, p \in ParentIds : search_monitor(n, p)
    \/ \E n \in Names, p \in ParentIds : find_monitor(n, p)
    \/ disconnect
    \/ connect
    \/ connect_login
    \/ reload_monitor_list
    \/ reload_clear
    \/ reload_emit
    \/ reload_poll
    \/ reload_sleep
    \/ reload_log
    \/ add_check
    \/ add_emit
    \/ add_poll
    \/ add_read
    \/ search_filter
    \/ find_pick

Background ==
    \/ \E payload \in MonitorListPayloads : on_monitorList(payload)
    \/ merge_monitorList
    \/ \E payload \in AddAckPayloads : ack_callback(payload)
    \/ ack_timeout
    \/ \E outcome \in {"ok", "rejected", "timeout"} : login_ack(outcome)

Next == Foreground \/ Background

Spec == Init /\ [][Next]_vars

(* The foreground thread and the callback thread are both scheduled; whether the *)
(* server sends anything is not up to the program.                               *)
FairSpec ==
    /\ Spec
    /\ WF_vars(Foreground)
    /\ WF_vars(merge_monitorList)

----------------------------------------------------------------------------
(* Vocabulary of the properties. *)
Range(seq) == {seq[i] : i \in DOMAIN seq}

AddReturned == pc = "idle" /\ call.op = "add_monitor"

(* The payload is a non-empty array whose first record reports success with id n. *)
SuccessRecord(payload, n) ==
    /\ payload.tag = "String"
    /\ payload.json.shape = "array"
    /\ Len(payload.json.value) > 0
    /\ payload.json.value[1].ok = Some(TRUE)
    /\ payload.json.value[1].monitorID = Some(n)

AssignedIds == {42, U8Max, U8Max + 1}

(* The entries of a cache that satisfy the supplied predicates. *)
Matching(cache, by_name, by_parent_id) ==
    [u \in {k \in DOMAIN cache :
              /\ by_name = None \/ cache[k].name = by_name[1]
              /\ by_parent_id = None \/ cache[k].parent = by_parent_id} |-> cache[u]]

(* The monitors of a state: those of the cache, of the snapshot being merged and *)
(* of the call, next to every monitor a caller or the server can supply.         *)
MonitorsOf(cache, snap, monitor) ==
    {cache[u] : u \in DOMAIN cache} \cup {snap[k] : k \in DOMAIN snap}
        \cup Range(monitor) \cup InputMonitors \cup {MonA, MonB, MonA0, MonBig}

(* A snapshot keyed by uid: one entry per uid, each a monitor of the snapshot. *)
IsSnapshotByUid(cache, snap) ==
    /\ DOMAIN cache = {uid(snap[k]) : k \in DOMAIN snap}
    /\ \A u \in DOMAIN cache : \E k \in DOMAIN snap : cache[u] = snap[k]

----------------------------------------------------------------------------
(* C1: once reload_monitor_list polls an empty cache with the callback thread    *)
(* idle, and no monitorList push event is delivered from then on, the wait ends   *)
(* (with a ListRefreshTimedOut error): either the polling loop is left or the     *)
(* callback thread has been handed a push event.                                  *)
C1_RefreshWaitEnds ==
    (pc = "reload_poll" /\ monitor_list = EmptyMap /\ handler.state = "idle")
        ~> (pc \notin {"reload_poll", "reload_sleep"} \/ handler.state /= "idle")

(* C2: when add_monitor reaches its duplicate check with the uid of its monitor  *)
(* in the cache, it returns the duplicate error and emits no request; and it     *)
(* goes on to the "add" request only when the uid is not in the cache.           *)
C2_DuplicateRejected ==
    [][ (pc = "add_check" /\ pc' /= "add_check") =>
          IF uid(call.monitor[1]) \in DOMAIN monitor_list
            THEN /\ pc' = "idle"
                 /\ result'.kind = "Err"
                 /\ result'.value = "DuplicateMonitor"
                 /\ sent' = sent
            ELSE pc' = "add_emit" ]_vars

(* C3: when the callback was called, before the polling loop gave up, with a     *)
(* payload whose first record is ok with monitorID = n, add_monitor returns Ok   *)
(* with the input monitor carrying id n.                                         *)
C3_CreationReturnsId ==
    \A n \in AssignedIds :
        (AddReturned /\ ack /= None /\ ~ackLate /\ SuccessRecord(ack[1], n))
            => /\ result.kind = "Ok"
               /\ result.value = [call.monitor[1] EXCEPT !.id = Some(n)]

(* C4: the acknowledgement callback never panics, and an acknowledgement that is *)
(* no success record makes add_monitor return CreationFailed.                    *)
C4_BadAckIsCreationFailed ==
    /\ handler.panic /= "ack_callback"
    /\ (AddReturned /\ ack /= None /\ \A n \in AssignedIds : ~SuccessRecord(ack[1], n))
          => (result.kind = "Err" /\ result.value = "CreationFailed")

(* C5 as stated: the polling counter never passes 20, an add_monitor whose       *)
(* callback never fired returns an error, and an Ok comes from a callback that   *)
(* fired before the loop gave up at the cap.                                     *)
C5_OkOnlyBeforeCap ==
    /\ counter <= PollCap
    /\ (AddReturned /\ "add" \in Range(sent) /\ ack = None) => result.kind = "Err"
    /\ (AddReturned /\ result.kind = "Ok") => (ack /= None /\ ~ackLate)

(* C5 amended: the polling counter never passes 20, an add_monitor whose         *)
(* callback never fired returns an error, and an Ok comes from a callback that   *)
(* fired before the final read of the response slot, be it after the cap.        *)
C5_OkOnlyFromCallback ==
    /\ counter <= PollCap
    /\ (AddReturned /\ "add" \in Range(sent) /\ ack = None) => result.kind = "Err"
    /\ (AddReturned /\ result.kind = "Ok") =>
          /\ ack /= None
          /\ \E n \in AssignedIds : /\ SuccessRecord(ack[1], n)
                                    /\ result.value.id = Some(n)

(* C5 witness: the loop has run its 20 iterations and no callback has fired. *)
C5_CapReached == pc = "add_read" /\ counter = PollCap /\ ack = None

(* C6: when the handler finishes a monitorList push event, the cache holds       *)
(* exactly the monitors of that snapshot, keyed by uid.                          *)
C6_SnapshotReplacesCache ==
    [][ (handler.state = "merging" /\ handler'.state = "idle") =>
          IsSnapshotByUid(monitor_list', handler.snap) ]_vars

(* C7: the client is connected, with a handle, only when its login request has  *)
(* been acknowledged with success.                                               *)
C7_ConnectedOnlyAfterLoginAck ==
    /\ _connected => (loginAck = "ok" /\ _client /= None)
    /\ ~_connected => _client = None

(* C8: the filter step of search_monitor yields exactly the cache entries that   *)
(* match the supplied predicates, and does not fail.                             *)
C8_SearchReturnsMatches ==
    [][ (pc = "search_filter" /\ pc' /= "search_filter") =>
          /\ result'.kind = "Ok"
          /\ result'.value = Matching(monitor_list, call.by_name, call.by_parent_id) ]_vars

(* C9: no step of a public operation terminates the process with a panic, and  *)
(* disconnect called on a disconnected client returns a failure and leaves the   *)
(* client disconnected.                                                          *)
C9_NoOperationPanics ==
    [][ /\ pc' /= "panicked"
        /\ (pc = "idle" /\ call'.op = "disconnect" /\ ~_connected) =>
              /\ pc' = "idle"
              /\ result'.kind = "Err"
              /\ ~_connected'
              /\ _client' = None ]_vars

(* C10 as stated: connect on a connected client changes nothing, and after any   *)
(* add, search or find since the last disconnect exactly one login was sent.     *)
C10_ExactlyOneLogin ==
    (pc = "idle" /\ call.op \in {"add_monitor", "search_monitor", "find_monitor"})
        => logins = 1

(* C10 amended: connect on a connected client returns at once and leaves the     *)
(* transport, the handler, the handle, the cache and the requests sent as they   *)
(* were; at most one login is sent between disconnects, and exactly one once     *)
(* the client is connected.                                                      *)
C10_ConnectIsNoOp ==
    /\ [][ (pc = "connect" /\ _connected /\ pc' /= "connect") =>
             /\ pc' = AfterConnect
             /\ UNCHANGED <<_connected, _client, monitor_list, handler, transport,
                            opened, logins, loginAck, sent, result>> ]_vars
    /\ [](logins <= 1 /\ (_connected <=> logins = 1))

(* C10 witness: inside an add_monitor that has connected and sent its login,    *)
(* the connect called by reload_monitor_list has returned to line 194.           *)
C10_SecondConnectReturned ==
    /\ pc = "reload_clear"
    /\ call.op = "add_monitor"
    /\ _connected
    /\ logins = 1
    /\ sent = <<"login">>

(* C11: disconnect on a connected client leaves it disconnected, without handle, *)
(* and leaves the cache as it was; a disconnected client opens a new transport   *)
(* and its first request is the login.                                           *)
C11_DisconnectThenReconnect ==
    [][ /\ (pc = "idle" /\ call'.op = "disconnect" /\ _connected) =>
              /\ pc' = "idle"
              /\ ~_connected'
              /\ _client' = None
              /\ monitor_list' = monitor_list
        /\ (pc = "connect" /\ ~_connected /\ pc' = "connect_login") =>
              /\ opened' = opened + 1
              /\ transport' = "open"
        /\ (Len(sent') > Len(sent) /\ ~_connected) =>
              /\ sent' = <<"login">>
              /\ _connected'
              /\ _client' = Some(opened) ]_vars

(* C12: the cache changes only in a step of the thread that has the lock (the     *)
(* handler while it holds it, the caller in a step that found it free), and the  *)
(* caller holds the lock in no state between two of its steps, in particular     *)
(* not while it sleeps in a polling wait: the handler is never locked out.       *)
C12_LockHeldPerAccess ==
    /\ [][ monitor_list' /= monitor_list =>
             \/ lock = "handler" /\ handler.state = "merging" /\ pc' = pc
             \/ lock = "free" /\ pc = "reload_clear" /\ handler' = handler ]_vars
    /\ [](/\ lock \in {"free", "handler"}
          /\ (lock = "handler") <=> (handler.state = "merging")
          /\ pc \in {"reload_sleep", "add_poll"} => lock /= "caller")

(* C12 witness: the handler holds the lock for a push while the caller sleeps    *)
(* between two polls of the cache.                                               *)
C12_HandlerLocksDuringWait ==
    /\ pc = "reload_sleep"
    /\ lock = "handler"
    /\ handler.state = "merging"

(* C13: when the search inside find_monitor has yielded its matches, find_monitor *)
(* returns one of them if there are two or more, and nothing if there are none   *)
(* or exactly one.                                                               *)
C13_FindNeedsTwoMatches ==
    [][ (pc = "find_pick" /\ pc' /= "find_pick") =>
          LET matches == result.value IN
            /\ pc' = "idle"
            /\ result'.kind = "Ok"
            /\ IF Cardinality(DOMAIN matches) >= 2
                 THEN /\ result'.value /= None
                      /\ \E u \in DOMAIN matches : result'.value = Some(matches[u])
                 ELSE result'.value = None ]_vars

(* C13 witness: find_monitor has returned a monitor although the cache holds      *)
(* two monitors that match its predicates.                                        *)
C13_FoundAmongSeveral ==
    /\ pc = "idle"
    /\ call.op = "find_monitor"
    /\ result.kind = "Ok"
    /\ result.value /= None
    /\ Cardinality(DOMAIN Matching(monitor_list, call.by_name, call.by_parent_id)) = 2

(* C14: a refresh that fails inside search_monitor makes search_monitor return   *)
(* the empty map: when connect, the login or the getMonitorList request fails,   *)
(* and when the wait for the list is given up because no push event arrives.     *)
C14_FailedRefreshGivesEmptyMap ==
    /\ [][ (/\ call.op = "search_monitor"
            /\ pc \in {"connect", "connect_login", "reload_emit"}
            /\ pc' = "idle") =>
               (result'.kind = "Ok" /\ result'.value = EmptyMap) ]_vars
    /\ (/\ call.op = "search_monitor"
        /\ pc = "reload_poll"
        /\ monitor_list = EmptyMap
        /\ handler.state = "idle")
          ~> \/ pc = "idle" /\ result.kind = "Ok" /\ result.value = EmptyMap
             \/ handler.state /= "idle"
             \/ monitor_list /= EmptyMap

(* C15: uid is a string for every monitor, and two monitors with the same name    *)
(* and the same parent, an absent parent counting as 0, have the same uid         *)
(* whatever their other fields are.                                               *)
C15_UidOfParentAndName ==
    \A m1, m2 \in MonitorsOf(monitor_list, handler.snap, call.monitor) :
        /\ uid(m1) \in STRING
        /\ (unwrap_or(m1.parent, 0) = unwrap_or(m2.parent, 0) /\ m1.name = m2.name)
              => uid(m1) = uid(m2)

(* C15 witness: add_monitor has computed the uid of a monitor without parent and  *)
(* without id and found it in the cache as the key of a monitor with parent 0     *)
(* and an id.                                                                     *)
C15_SameUidOtherFields ==
    /\ AddReturned
    /\ result.kind = "Err"
    /\ result.value = "DuplicateMonitor"
    /\ call.monitor[1].parent = None
    /\ \E u \in DOMAIN monitor_list :
          /\ monitor_list[u].parent = Some(0)
          /\ monitor_list[u].name = call.monitor[1].name
          /\ monitor_list[u].id /= call.monitor[1].id

(* C16: a monitor built from a name alone has kind http, the single accepted     *)
(* status range "200-299", method HEAD, interval 90, expiry notification on, and  *)
(* no id, url, parent or path name; built with a kind it differs in the kind      *)
(* only.  So does the monitor a caller has built and handed to add_monitor.       *)
C16_NewMonitorDefaults ==
    LET defaults(name) ==
            [ id |-> None, name |-> name, typology |-> "http", url |-> None,
              parent |-> None, path_name |-> None,
              accepted_status_codes |-> <<"200-299">>, expiry_notification |-> TRUE,
              method |-> Some("HEAD"), interval |-> 90 ]
    IN  /\ \A name \in {"a", "b"} :
             /\ new(name, None) = defaults(name)
             /\ \A k \in {"http", "ping", "group"} :
                   new(name, Some(k)) = [defaults(name) EXCEPT !.typology = k]
        /\ (call.op = "add_monitor" /\ call.monitor[1].parent = None) =>
               call.monitor[1] = defaults(call.monitor[1].name)

(* C16 witness: add_monitor runs on a monitor built from the name "a" alone. *)
C16_BuiltFromNameAlone ==
    /\ call.op = "add_monitor"
    /\ pc = "add_check"
    /\ call.monitor[1].name = "a"
    /\ call.monitor[1].typology = "http"
    /\ call.monitor[1].interval = 90
    /\ call.monitor[1].method = Some("HEAD")

(* C17: the requests of one add_monitor are, in this order, login (sent only by  *)
(* a client that is not connected), getMonitorList and add; getMonitorList and   *)
(* add are sent by a connected client only; add is sent only from line 251,      *)
(* after the getMonitorList of the same call and its refresh; and when connect,  *)
(* the login or the getMonitorList request fails, add_monitor returns that       *)
(* error and has sent no add.                                                    *)
C17_RequestOrder ==
    /\ [](call.op = "add_monitor" =>
            sent \in { <<>>, <<"login">>, <<"login", "getMonitorList">>,
                       <<"login", "getMonitorList", "add">>,
                       <<"getMonitorList">>, <<"getMonitorList", "add">> })
    /\ [][ /\ (Len(sent') > Len(sent) /\ sent'[Len(sent')] = "login") => ~_connected
           /\ (Len(sent') > Len(sent) /\ sent'[Len(sent')] /= "login") =>
                  (_connected /\ _connected' /\ transport = "open")
           /\ (Len(sent') > Len(sent) /\ sent'[Len(sent')] = "add") =>
                  /\ pc = "add_emit"
                  /\ sent[Len(sent)] = "getMonitorList"
                  /\ monitor_list /= EmptyMap
           /\ (/\ call.op = "add_monitor"
               /\ pc \in {"connect", "connect_login", "reload_emit"}
               /\ pc' = "idle") =>
                  /\ result'.kind = "Err"
                  /\ result'.value \in {"ConnectionFailed", "AuthenticationFailed",
                                        "EmitFailed"}
                  /\ "add" \notin Range(sent') ]_vars

(* C17 witness: an add_monitor on a client that was not connected has sent its   *)
(* three requests.                                                               *)
C17_AllThreeSent ==
    /\ call.op = "add_monitor"
    /\ sent = <<"login", "getMonitorList", "add">>

(* C18: a monitorList push delivered while reload_monitor_list waits ends the     *)
(* wait once it is merged, whatever snapshot it carries, the empty one included: *)
(* after the merge the cache passes the test of the waiting loop, and the poll   *)
(* that finds it so goes on to the successful return of the refresh.             *)
C18_AnsweredRefreshReturns ==
    [][ /\ (/\ handler.state = "merging"
            /\ handler.awaited
            /\ handler'.state = "idle") =>
               Cardinality(DOMAIN monitor_list') /= 0
        /\ (pc = "reload_poll" /\ pc' /= pc /\ Cardinality(DOMAIN monitor_list) /= 0) =>
               pc' = "reload_log" ]_vars

(* C19: a read of the cache by the caller (the count logged after the wait, line *)
(* 207, and the duplicate check, line 219) never makes the caller panic, also    *)
(* not when the handler holds the lock to merge a push at that moment: the       *)
(* caller's next step is the one that follows the read.                          *)
C19_ReadWaitsForLock ==
    [][ /\ (pc = "reload_log" /\ pc' /= pc) => pc' = AfterReload
        /\ (pc = "add_check" /\ pc' /= pc) =>
              /\ pc' \in {"add_emit", "idle"}
              /\ pc' = "idle" <=> uid(call.monitor[1]) \in DOMAIN monitor_list ]_vars

(* C20: every key of the cache is the uid of the monitor stored under it, never  *)
(* the key the server used; and a merge stores every monitor of its snapshot     *)
(* under its uid, in place of a monitor an earlier push left there, and leaves   *)
(* the entries of other uids as they were.                                       *)
C20_CacheKeyedByUid ==
    /\ [](\A u \in DOMAIN monitor_list : uid(monitor_list[u]) = u)
    /\ [][ (handler.state = "merging" /\ handler'.state = "idle") =>
             LET snap == handler.snap
                 uids == {uid(snap[k]) : k \in DOMAIN snap}
             IN  /\ DOMAIN monitor_list' = DOMAIN monitor_list \cup uids
                 /\ \A u \in uids :
                       \E k \in DOMAIN snap : uid(snap[k]) = u /\ monitor_list'[u] = snap[k]
                 /\ \A u \in DOMAIN monitor_list \ uids :
                       monitor_list'[u] = monitor_list[u] ]_vars

(* C20 witness: after a push with the monitors "a" and "b", a later push has     *)
(* replaced the entry of uid "0-a" by its monitor with parent 0, under the same  *)
(* key, and the entry of "b" has stayed.                                         *)
C20_LaterPushReplaced ==
    /\ handler.state = "idle"
    /\ DOMAIN monitor_list = {"0-a", "1-b"}
    /\ monitor_list["0-a"] = MonA0
    /\ monitor_list["1-b"] = MonB

====
